---- MODULE Spec2Model ----
(***************************************************************************)
(* Model of RFIDReader.py: the driver's tag-report callback feeding        *)
(* TAG_QUEUE, the tag-processing thread (process_tags_console) with its    *)
(* local seen_epcs set and the shared SEEN_TAGS deque, and the command     *)
(* loop (user_interface / main) issuing start, stop, clear, state, exit.   *)
(*                                                                         *)
(* Granularity: one action per access to state shared between threads.     *)
(* Steps that touch only thread-local data (reading the command line, the  *)
(* membership test on the thread-local seen_epcs, time.sleep) are merged   *)
(* into the neighbouring shared access.  Each thread's console output is   *)
(* kept in its own log (uiOut, notified, cbWarn).                          *)
(*                                                                         *)
(* Variables enqueued, enqAt, offers, accepted, nclears, driverCmds, uiLog *)
(* are history variables: they record what the code did.  None is read by  *)
(* a guard, except that the length of uiLog bounds the commands of a run.  *)
(***************************************************************************)
EXTENDS Integers, Sequences, FiniteSets, TLC

\* ---------------------------------------------------------------- bounds
MaxReports == 2   \* raw tag events the driver delivers in one run
MaxBatch == 2     \* raw tag events in one callback invocation
NumCb == 2        \* driver threads that may run tag_report_cb at once
MaxCmds == 2      \* operator commands read by user_interface in one run

\* ------------------------------------------------------- program constants
MAXLEN == 100     \* SEEN_TAGS = deque(maxlen=100)

None == "None"

VARIABLES
    READER,      \* the LLRPReaderClient: [alive, state]
    TAG_QUEUE,   \* Queue(): sequence of tag_data records
    SEEN_TAGS,   \* deque(maxlen=100): sequence of tag_data records
    seen_epcs,   \* local set of process_tags_console
    cb,          \* per driver thread: the tag_report_cb call: [batch, idx, put]
    now,         \* number of raw tag events the driver has produced
    reported,    \* the reader's TagSeenCount per EPC
    cbWarn,      \* "Error parsing tag" lines printed by tag_report_cb
    ingPc,       \* position of process_tags_console
    tag,         \* local variable tag of process_tags_console
    notified,    \* "New tag" notifications printed, in order
    uiPc,        \* position of the main thread (user_interface, then main)
    uiOut,       \* lines printed by the main thread
    running,     \* FALSE once the process has exited
    enqueued,    \* history: every record put on TAG_QUEUE, in order
    enqAt,       \* history: the value of nclears at each of these puts
    offers,      \* history: every record taken from TAG_QUEUE with its outcome
    accepted,    \* history: records appended to SEEN_TAGS since the last clear
    nclears,     \* history: number of clear_tag_data calls so far
    driverCmds,  \* history: commands sent to READER.llrp / READER
    uiLog        \* history: commands read by user_interface with their outcome

vars == <<READER, TAG_QUEUE, SEEN_TAGS, seen_epcs, cb, now, reported, cbWarn, ingPc, tag,
          notified, uiPc, uiOut, running, enqueued, enqAt, offers, accepted, nclears,
          driverCmds, uiLog>>

CbThreads == 1..NumCb

\* ------------------------------------------------------------ raw events
\* EPC byte strings the reader reports.  <<1>> is the oldest tag of a full
\* buffer (see Init), <<101>> is never in the initial buffer, <<200>> is not
\* ASCII.
RawEpcs == {<<1>>, <<101>>, <<200>>}

\* A raw tag report as sllurp hands it to the callback: a dict that may lack
\* the "EPC" key.  TagSeenCount n is the reader's running count for the EPC.
RawTag(epc, n) ==
    [EPC |-> epc, ChannelIndex |-> 1, LastSeenTimestampUTC |-> 0, TagSeenCount |-> n]

RawTagNoEpc ==
    [ChannelIndex |-> 1, LastSeenTimestampUTC |-> 0, TagSeenCount |-> 1]

RawChoices == {[has |-> TRUE, epc |-> e] : e \in RawEpcs} \cup {[has |-> FALSE, epc |-> <<>>]}

\* number of reports of c among the first k elements of the choice sequence
RECURSIVE CountIn(_, _, _)
CountIn(choice, k, c) ==
    IF k = 0 THEN 0
    ELSE CountIn(choice, k - 1, c) + (IF choice[k] = c THEN 1 ELSE 0)

\* the batch the reader sends for a sequence of choices, given its counts
MkBatch(choice, counts) ==
    [i \in DOMAIN choice |->
        IF choice[i].has
        THEN RawTag(choice[i].epc, counts[choice[i].epc] + CountIn(choice, i, choice[i]))
        ELSE RawTagNoEpc]

\* bytes.decode("ascii"): defined only when every byte is below 128
CanDecodeAscii(bytes) == \A i \in DOMAIN bytes : bytes[i] < 128

DecodeAscii(bytes) == [i \in DOMAIN bytes |-> bytes[i]]

\* dict.get(key): the value, or None when the key is absent
DictGet(d, key) == IF key \in DOMAIN d THEN d[key] ELSE None

\* the body of the try block of tag_report_cb raises
ParseRaises(raw) == ~("EPC" \in DOMAIN raw) \/ ~CanDecodeAscii(raw["EPC"])

tag_data(raw) ==
    [epc |-> DecodeAscii(raw["EPC"]),
     channel |-> DictGet(raw, "ChannelIndex"),
     last_seen |-> DictGet(raw, "LastSeenTimestampUTC"),
     seen_count |-> DictGet(raw, "TagSeenCount")]

\* ----------------------------------------------------- queue and deque
QueuePut(q, x) == Append(q, x)

QueueHeadLifo(q) == q[Len(q)]

\* Queue.get returns the oldest element
QueueHead(q) == Head(q)

QueueRest(q) == Tail(q)

DequeAppendUnbounded(d, x) == Append(d, x)

DequeAppendDropNewest(d, x) ==
    IF Len(d) >= MAXLEN THEN Append(SubSeq(d, 1, Len(d) - 1), x) ELSE Append(d, x)

\* deque.append with maxlen: when full, the leftmost element is discarded
DequeAppend(d, x) ==
    IF Len(d) >= MAXLEN THEN Append(Tail(d), x) ELSE Append(d, x)

\* "READER and READER.is_alive()": READER is assigned in main before any
\* thread starts and is never reset, so only is_alive() can be false
ReaderAlive == READER.alive

EpcsOf(s) == {s[i].epc : i \in DOMAIN s}

\* ------------------------------------------------------------------ Init
\* InitWith(0) is the state after main has started the tag thread and entered
\* user_interface.  InitWith(MAXLEN) is the state of a run in which MAXLEN
\* distinct tags <<1>> .. <<MAXLEN>> have been accepted and no command has been
\* given: the buffer is full of their records and seen_epcs holds their EPCs.
\* no call of tag_report_cb is running on the thread
CbIdleRec == [batch |-> <<>>, idx |-> 1, put |-> <<>>]

NoTag == [epc |-> <<>>, channel |-> 0, last_seen |-> 0, seen_count |-> 0]

WarmTag(i) == [epc |-> <<i>>, channel |-> 1, last_seen |-> 0, seen_count |-> 1]

InitWith(fill) ==
    /\ SEEN_TAGS = [i \in 1..fill |-> WarmTag(i)]
    /\ accepted = [i \in 1..fill |-> WarmTag(i)]
    /\ seen_epcs = {<<i>> : i \in 1..fill}
    /\ READER = [alive |-> TRUE, state |-> "connected"]
    /\ TAG_QUEUE = <<>>
    /\ cb = [t \in CbThreads |-> CbIdleRec]
    /\ now = 0
    /\ reported = [e \in RawEpcs |-> IF e \in seen_epcs THEN 1 ELSE 0]
    /\ cbWarn = 0
    /\ ingPc = "get"
    /\ tag = NoTag
    /\ notified = <<>>
    /\ uiPc = "prompt"
    /\ uiOut = <<>>
    /\ running = TRUE
    /\ enqueued = <<>>
    /\ enqAt = <<>>
    /\ offers = <<>>
    /\ nclears = 0
    /\ driverCmds = <<>>
    /\ uiLog = <<>>

\* --------------------------------------------------------- tag_report_cb
CbIdle(t) == cb[t] = CbIdleRec

\* the for loop of the call on thread t has run to its end
CbAtEnd(t) == ~CbIdle(t) /\ cb[t].idx > Len(cb[t].batch)

\* the driver calls tag_report_cb(reader, tag_reports) on thread t.  Thread
\* identities carry no meaning, so a new call takes the lowest idle thread.
CbInvoke(t) ==
    /\ running
    /\ CbIdle(t)
    /\ \A u \in CbThreads : u < t => ~CbIdle(u)
    /\ \E n \in 1..MaxBatch :
         /\ now + n <= MaxReports
         /\ \E choice \in [1..n -> RawChoices] :
              /\ cb' = [cb EXCEPT ![t] = [batch |-> MkBatch(choice, reported),
                                          idx |-> 1, put |-> <<>>]]
              /\ reported' = [e \in RawEpcs |->
                                reported[e] + CountIn(choice, n, [has |-> TRUE, epc |-> e])]
         /\ now' = now + n
    /\ UNCHANGED <<READER, TAG_QUEUE, SEEN_TAGS, seen_epcs, cbWarn, ingPc, tag,
                   notified, uiPc, uiOut, running, enqueued, enqAt, offers, accepted,
                   nclears, driverCmds, uiLog>>

AfterParseErrorAbort(c) == [c EXCEPT !.idx = Len(c.batch) + 1]

\* the except clause sits inside the for loop: the loop goes on with the next
\* element
AfterParseError(c) == [c EXCEPT !.idx = @ + 1]

\* one iteration of "for tag in tag_reports"
tag_report_cb(t) ==
    /\ running
    /\ ~CbIdle(t)
    /\ ~CbAtEnd(t)
    /\ LET raw == cb[t].batch[cb[t].idx] IN
         IF ParseRaises(raw)
         THEN /\ cbWarn' = cbWarn + 1
              /\ cb' = [cb EXCEPT ![t] = AfterParseError(@)]
              /\ UNCHANGED <<TAG_QUEUE, enqueued, enqAt>>
         ELSE /\ TAG_QUEUE' = QueuePut(TAG_QUEUE, tag_data(raw))
              /\ enqueued' = Append(enqueued, tag_data(raw))
              /\ enqAt' = Append(enqAt, nclears)
              /\ cb' = [cb EXCEPT ![t].idx = @ + 1,
                                  ![t].put = Append(@, tag_data(raw))]
              /\ UNCHANGED cbWarn
    /\ UNCHANGED <<READER, SEEN_TAGS, seen_epcs, now, reported, ingPc, tag, notified, uiPc,
                   uiOut, running, offers, accepted, nclears, driverCmds, uiLog>>

\* tag_report_cb returns to the driver
CbReturn(t) ==
    /\ running
    /\ CbAtEnd(t)
    /\ cb' = [cb EXCEPT ![t] = CbIdleRec]
    /\ UNCHANGED <<READER, TAG_QUEUE, SEEN_TAGS, seen_epcs, now, reported, cbWarn,
                   ingPc, tag, notified, uiPc, uiOut, running, enqueued, enqAt, offers,
                   accepted, nclears, driverCmds, uiLog>>

\* -------------------------------------------------- process_tags_console
IsNewAlways(epc, seen) == TRUE

IsNewByBuffer(epc, seen) == epc \notin EpcsOf(SEEN_TAGS)

\* "if epc not in seen_epcs"
IsNew(epc, seen) == epc \notin seen

\* tag = TAG_QUEUE.get(timeout=0.2); epc = tag["epc"]; the membership test and
\* seen_epcs.add(epc).  queue.Empty (nothing to get) leaves the state as it
\* is and is a stuttering step.
IngGet ==
    /\ running
    /\ ingPc = "get"
    /\ Len(TAG_QUEUE) > 0
    /\ LET t == QueueHead(TAG_QUEUE) IN
         /\ TAG_QUEUE' = QueueRest(TAG_QUEUE)
         /\ tag' = t
         /\ IF IsNew(t.epc, seen_epcs)
            THEN /\ seen_epcs' = seen_epcs \cup {t.epc}
                 /\ ingPc' = "append"
                 /\ offers' = Append(offers, [rec |-> t, result |-> "accepted", clears |-> nclears])
            ELSE /\ UNCHANGED <<seen_epcs, ingPc>>
                 /\ offers' = Append(offers, [rec |-> t, result |-> "duplicate", clears |-> nclears])
    /\ UNCHANGED <<READER, SEEN_TAGS, cb, now, reported, cbWarn, notified, uiPc, uiOut,
                   running, enqueued, enqAt, accepted, nclears, driverCmds, uiLog>>

\* SEEN_TAGS.append(tag)
IngAppend ==
    /\ running
    /\ ingPc = "append"
    /\ SEEN_TAGS' = DequeAppend(SEEN_TAGS, tag)
    /\ accepted' = Append(accepted, tag)
    /\ ingPc' = "print"
    /\ UNCHANGED <<READER, TAG_QUEUE, seen_epcs, cb, now, reported, cbWarn, tag, notified,
                   uiPc, uiOut, running, enqueued, enqAt, offers, nclears, driverCmds, uiLog>>

NewTagLinesSwapped(t) ==
    [epc |-> t.epc, channel |-> t.seen_count, seen_count |-> t.channel,
     last_seen |-> t.last_seen]

\* what the two print calls show of the record: EPC, Ch, Seen, Time
NewTagLines(t) ==
    [epc |-> t.epc, channel |-> t.channel, seen_count |-> t.seen_count,
     last_seen |-> t.last_seen]

\* the two print calls, then time.sleep(0.05) and the next iteration.  Every
\* record on the queue was built by tag_report_cb with all four keys, so the
\* "except Exception" clause of the loop is never entered.
IngPrint ==
    /\ running
    /\ ingPc = "print"
    /\ notified' = Append(notified, NewTagLines(tag))
    /\ ingPc' = "get"
    /\ UNCHANGED <<READER, TAG_QUEUE, SEEN_TAGS, seen_epcs, cb, now, reported, cbWarn, tag,
                   uiPc, uiOut, running, enqueued, enqAt, offers, accepted, nclears,
                   driverCmds, uiLog>>

\* "while True" has no break, return or stop flag: the thread is always at one
\* of "get", "append", "print" and only ends by being killed with the process.
process_tags_console == IngGet \/ IngAppend \/ IngPrint

\* ------------------------------------------------------ driver (sllurp)
\* A call into the driver either returns or raises.  It takes effect on the
\* reader only when it returns and the connection is up.
DriverOutcomes == {"returns", "raises"}

DriverLog(cmd) == Append(driverCmds, [cmd |-> cmd, alive |-> READER.alive])

DriverEffect(cmd, outcome) ==
    IF outcome = "returns" /\ READER.alive
    THEN CASE cmd = "startInventory" -> [READER EXCEPT !.state = "inventorying"]
           [] cmd = "stopPolitely" -> [READER EXCEPT !.state = "connected"]
           [] cmd = "disconnect" -> [alive |-> FALSE, state |-> "disconnected"]
    ELSE READER

\* the connection drops on the driver's side, at any time
ConnectionLost ==
    /\ running
    /\ READER.alive
    /\ READER' = [alive |-> FALSE, state |-> "disconnected"]
    /\ UNCHANGED <<TAG_QUEUE, SEEN_TAGS, seen_epcs, cb, now, reported, cbWarn, ingPc, tag,
                   notified, uiPc, uiOut, running, enqueued, enqAt, offers, accepted,
                   nclears, driverCmds, uiLog>>

\* ------------------------------------------------------ command functions
StartGuardMissing == TRUE

\* the guard "if READER and READER.is_alive()" of start_reading
StartGuard == ReaderAlive

\* the guard "if READER and READER.is_alive()" of stop_reading
StopGuard == ReaderAlive

\* user_interface reads a command: cmd = input(">> ").strip().lower()
ReadCmd(cmd, outcome) ==
    /\ running
    /\ uiPc = "prompt"
    /\ Len(uiLog) < MaxCmds
    /\ uiLog' = Append(uiLog, [cmd |-> cmd, outcome |-> outcome])

Finish(outcome) == uiLog' = [uiLog EXCEPT ![Len(uiLog)].outcome = outcome]

\* what no function of the main thread touches, but for TAG_QUEUE
OthersUnchanged == UNCHANGED <<seen_epcs, cb, now, reported, cbWarn, ingPc, tag,
                               notified, running, enqueued, enqAt, offers>>

IngUnchanged == UNCHANGED TAG_QUEUE /\ OthersUnchanged

ClearAlsoEmptiesQueue ==
    /\ SEEN_TAGS' = <<>>
    /\ TAG_QUEUE' = <<>>
    /\ uiOut' = Append(uiOut, <<"Tag data cleared.">>)
    /\ accepted' = <<>>
    /\ nclears' = nclears + 1

\* clear_tag_data(): SEEN_TAGS.clear() and the print; TAG_QUEUE is not touched
clear_tag_data ==
    /\ SEEN_TAGS' = <<>>
    /\ UNCHANGED TAG_QUEUE
    /\ uiOut' = Append(uiOut, <<"Tag data cleared.">>)
    /\ accepted' = <<>>
    /\ nclears' = nclears + 1

UiStartSkipClear ==
    /\ IF StartGuard
       THEN /\ ReadCmd("start", "pending")
            /\ uiPc' = "start_inv"
       ELSE /\ ReadCmd("start", "noop")
            /\ uiPc' = "prompt"
    /\ UNCHANGED <<READER, SEEN_TAGS, uiOut, accepted, nclears, driverCmds>>
    /\ IngUnchanged

\* cmd == "start": start_reading() up to its guard
UiStart ==
    /\ IF StartGuard
       THEN /\ ReadCmd("start", "pending")
            /\ uiPc' = "start_clear"
       ELSE /\ ReadCmd("start", "noop")
            /\ uiPc' = "prompt"
    /\ UNCHANGED <<READER, SEEN_TAGS, uiOut, accepted, nclears, driverCmds>>
    /\ IngUnchanged

\* start_reading(): clear_tag_data()
UiStartClear ==
    /\ running
    /\ uiPc = "start_clear"
    /\ clear_tag_data
    /\ uiPc' = "start_inv"
    /\ UNCHANGED <<READER, driverCmds, uiLog>>
    /\ OthersUnchanged

\* start_reading(): READER.llrp.startInventory() and the print
UiStartInventory ==
    /\ running
    /\ uiPc = "start_inv"
    /\ driverCmds' = DriverLog("startInventory")
    /\ \E outcome \in DriverOutcomes :
         /\ READER' = DriverEffect("startInventory", outcome)
         /\ IF outcome = "returns"
            THEN /\ uiOut' = Append(uiOut, <<"Started inventory.">>)
                 /\ uiPc' = "prompt"
                 /\ Finish("ok")
            ELSE /\ uiPc' = "crashed"
                 /\ Finish("raised")
                 /\ UNCHANGED uiOut
    /\ UNCHANGED <<SEEN_TAGS, accepted, nclears>>
    /\ IngUnchanged

start_reading == UiStart \/ UiStartClear \/ UiStartInventory

\* cmd == "stop": stop_reading() up to its guard
UiStop ==
    /\ IF StopGuard
       THEN /\ ReadCmd("stop", "pending")
            /\ uiPc' = "stop_call"
       ELSE /\ ReadCmd("stop", "noop")
            /\ uiPc' = "prompt"
    /\ UNCHANGED <<READER, SEEN_TAGS, uiOut, accepted, nclears, driverCmds>>
    /\ IngUnchanged

\* stop_reading(): READER.llrp.stopPolitely() and the print; next is where the
\* caller continues (the prompt, or main's shutdown after "exit")
StopCall(at, next) ==
    /\ running
    /\ uiPc = at
    /\ driverCmds' = DriverLog("stopPolitely")
    /\ \E outcome \in DriverOutcomes :
         /\ READER' = DriverEffect("stopPolitely", outcome)
         /\ IF outcome = "returns"
            THEN /\ uiOut' = Append(uiOut, <<"Stopped inventory.">>)
                 /\ uiPc' = next
                 /\ Finish("ok")
            ELSE /\ uiPc' = "crashed"
                 /\ Finish("raised")
                 /\ UNCHANGED uiOut
    /\ UNCHANGED <<SEEN_TAGS, accepted, nclears>>
    /\ IngUnchanged

UiStopCall == StopCall("stop_call", "prompt")

stop_reading == UiStop \/ UiStopCall

\* cmd == "clear"
UiClear ==
    /\ ReadCmd("clear", "ok")
    /\ clear_tag_data
    /\ UNCHANGED <<READER, uiPc, driverCmds>>
    /\ OthersUnchanged

PrintStateUnguarded ==
    /\ IF ReaderAlive
       THEN /\ ReadCmd("state", "ok")
            /\ uiOut' = Append(uiOut, <<"Reader state:", READER.state>>)
            /\ UNCHANGED uiPc
       ELSE /\ ReadCmd("state", "raised")
            /\ uiPc' = "crashed"
            /\ UNCHANGED uiOut
    /\ UNCHANGED <<READER, SEEN_TAGS, accepted, nclears, driverCmds>>
    /\ IngUnchanged

\* cmd == "state": print_reader_state()
print_reader_state ==
    /\ ReadCmd("state", "ok")
    /\ uiOut' = Append(uiOut, IF ReaderAlive
                              THEN <<"Reader state:", READER.state>>
                              ELSE <<"Reader not connected.">>)
    /\ UNCHANGED <<READER, SEEN_TAGS, uiPc, accepted, nclears, driverCmds>>
    /\ IngUnchanged

\* any other input
UiUnknown ==
    /\ ReadCmd("?", "ok")
    /\ uiOut' = Append(uiOut, <<"Unknown command.">>)
    /\ UNCHANGED <<READER, SEEN_TAGS, uiPc, accepted, nclears, driverCmds>>
    /\ IngUnchanged

UiExitNoStop ==
    /\ ReadCmd("exit", IF StopGuard THEN "ok" ELSE "noop")
    /\ uiPc' = "main_check"
    /\ UNCHANGED <<READER, SEEN_TAGS, uiOut, accepted, nclears, driverCmds>>
    /\ IngUnchanged

\* cmd == "exit": stop_reading(), then break
UiExit ==
    /\ IF StopGuard
       THEN /\ ReadCmd("exit", "pending")
            /\ uiPc' = "exit_stop"
       ELSE /\ ReadCmd("exit", "noop")
            /\ uiPc' = "main_check"
    /\ UNCHANGED <<READER, SEEN_TAGS, uiOut, accepted, nclears, driverCmds>>
    /\ IngUnchanged

UiExitStop == StopCall("exit_stop", "main_check")

user_interface ==
    \/ start_reading
    \/ stop_reading
    \/ UiClear
    \/ print_reader_state
    \/ UiUnknown
    \/ UiExit
    \/ UiExitStop

\* ------------------------------------------------------------------ main
\* "Graceful shutdown": if READER and READER.is_alive()
MainCheck ==
    /\ running
    /\ uiPc = "main_check"
    /\ uiPc' = IF ReaderAlive THEN "main_stop" ELSE "done"
    /\ UNCHANGED <<READER, SEEN_TAGS, uiOut, accepted, nclears, driverCmds, uiLog>>
    /\ IngUnchanged

\* READER.llrp.stopPolitely()
MainStop ==
    /\ running
    /\ uiPc = "main_stop"
    /\ driverCmds' = DriverLog("stopPolitely")
    /\ \E outcome \in DriverOutcomes :
         /\ READER' = DriverEffect("stopPolitely", outcome)
         /\ uiPc' = IF outcome = "returns" THEN "main_disc" ELSE "crashed"
    /\ UNCHANGED <<SEEN_TAGS, uiOut, accepted, nclears, uiLog>>
    /\ IngUnchanged

\* READER.disconnect() and the print
MainDisconnect ==
    /\ running
    /\ uiPc = "main_disc"
    /\ driverCmds' = DriverLog("disconnect")
    /\ \E outcome \in DriverOutcomes :
         /\ READER' = DriverEffect("disconnect", outcome)
         /\ IF outcome = "returns"
            THEN /\ uiOut' = Append(uiOut, <<"Reader disconnected. Exiting...">>)
                 /\ uiPc' = "done"
            ELSE /\ uiPc' = "crashed"
                 /\ UNCHANGED uiOut
    /\ UNCHANGED <<SEEN_TAGS, accepted, nclears, uiLog>>
    /\ IngUnchanged

\* The main thread has returned or died of an uncaught exception.  The
\* tag thread is a daemon thread: it is killed when the interpreter exits,
\* which happens once the driver's own threads let it.
ProcessExit ==
    /\ running
    /\ uiPc \in {"done", "crashed"}
    /\ running' = FALSE
    /\ UNCHANGED <<READER, TAG_QUEUE, SEEN_TAGS, seen_epcs, cb, now, reported, cbWarn, ingPc,
                   tag, notified, uiPc, uiOut, enqueued, enqAt, offers, accepted, nclears,
                   driverCmds, uiLog>>

main == MainCheck \/ MainStop \/ MainDisconnect \/ ProcessExit

\* ------------------------------------------------------------------ Next
Next ==
    \/ \E t \in CbThreads : CbInvoke(t)
    \/ \E t \in CbThreads : tag_report_cb(t)
    \/ \E t \in CbThreads : CbReturn(t)
    \/ process_tags_console
    \/ user_interface
    \/ main
    \/ ConnectionLost

Init == InitWith(0)

InitFull == InitWith(MAXLEN)

Spec == Init /\ [][Next]_vars

SpecFull == InitFull /\ [][Next]_vars

\* Scheduling: the tag thread and the driver's callback threads are ordinary
\* OS threads and are not starved while the process runs.
FairSpec ==
    /\ Spec
    /\ WF_vars(process_tags_console)
    /\ \A t \in CbThreads : WF_vars(tag_report_cb(t) \/ CbReturn(t))

\* =============================================================== claims
Min(a, b) == IF a <= b THEN a ELSE b

LastN(s, n) == SubSeq(s, Len(s) - n + 1, Len(s))

DequeuedSeq == [i \in DOMAIN offers |-> offers[i].rec]

NoteOf(r) == [epc |-> r.epc, channel |-> r.channel, seen_count |-> r.seen_count,
              last_seen |-> r.last_seen]

IsNotified(r) == \E i \in DOMAIN notified : notified[i] = NoteOf(r)

\* C1: between two consecutive clears (or between process start and the first
\* clear) at most one record of a given EPC is accepted by the tag thread.
C1_AtMostOneAcceptPerEpc ==
    /\ \A i, j \in DOMAIN offers :
         (/\ i < j
          /\ offers[i].rec.epc = offers[j].rec.epc
          /\ offers[i].result = "accepted"
          /\ offers[j].result = "accepted")
         => offers[i].clears # offers[j].clears
    /\ \A i, j \in DOMAIN accepted :
         i # j => accepted[i].epc # accepted[j].epc

\* a second record of an EPC was offered in the same clear interval and rejected
C1_Witness ==
    \E i, j \in DOMAIN offers :
        /\ i < j
        /\ offers[i].rec.epc = offers[j].rec.epc
        /\ offers[i].clears = offers[j].clears
        /\ offers[i].result = "accepted"
        /\ offers[j].result = "duplicate"
        /\ ingPc = "get"
        /\ IsNotified(offers[i].rec)

\* C2: a record whose EPC was accepted before a clear is accepted again when it
\* is the first record of that EPC offered after the clear.
C2_AcceptedAgainAfterClear ==
    \A i, j \in DOMAIN offers :
        (/\ i < j
         /\ offers[i].rec.epc = offers[j].rec.epc
         /\ offers[i].result = "accepted"
         /\ offers[i].clears < offers[j].clears
         /\ ~\E k \in DOMAIN offers :
               /\ k < j
               /\ offers[k].rec.epc = offers[j].rec.epc
               /\ offers[k].clears = offers[j].clears)
        => offers[j].result = "accepted"

\* C3: whenever the tag thread is between two records, an EPC is in seen_epcs
\* iff a record with that EPC has been appended to SEEN_TAGS since the last
\* clear (or since process start).
C3_SeenIffAppendedSinceClear ==
    ingPc = "get" => seen_epcs = EpcsOf(accepted)

\* C4: the buffer never holds more than MAXLEN records, and its length is
\* min(MAXLEN, number of records accepted since the last clear).
C4_Capacity ==
    /\ Len(SEEN_TAGS) <= MAXLEN
    /\ Len(SEEN_TAGS) = Min(MAXLEN, Len(accepted))

\* more than MAXLEN records have been accepted since the last clear
C4_Witness == Len(accepted) > MAXLEN /\ Len(SEEN_TAGS) = MAXLEN

\* C5: the buffer is the most recent min(MAXLEN, n) accepted records in
\* acceptance order: an append to a full buffer removes exactly the earliest
\* record still present and puts the new record last.
C5_FifoEviction ==
    SEEN_TAGS = LastN(accepted, Min(MAXLEN, Len(accepted)))

\* the earliest record has been evicted and the new record is last
C5_Witness ==
    /\ Len(accepted) = MAXLEN + 1
    /\ SEEN_TAGS[1] = accepted[2]
    /\ SEEN_TAGS[MAXLEN] = accepted[MAXLEN + 1]
    /\ accepted[1] = WarmTag(1)
    /\ ingPc = "print"

\* C6: once an offer of EPC X and a clear have both completed, X is in
\* seen_epcs iff its record is in SEEN_TAGS (no eviction since the clear).
C6_OfferClearConsistent ==
    (/\ ingPc = "get"
     /\ uiPc = "prompt"
     /\ nclears > 0
     /\ Len(accepted) <= MAXLEN)
    => \A i \in DOMAIN offers :
          offers[i].rec.epc \in seen_epcs <=> offers[i].rec.epc \in EpcsOf(SEEN_TAGS)

\* C7: every record put on TAG_QUEUE is taken off exactly once, in insertion
\* order, whatever the callbacks and commands do meanwhile; and while the
\* process runs every queued record is eventually taken off.
C7_QueueDelivers ==
    /\ [](enqueued = DequeuedSeq \o TAG_QUEUE)
    /\ \A k \in 1..MaxReports :
         (Len(enqueued) >= k) ~> (Len(offers) >= k \/ ~running)

\* two overlapping callback calls have each put a record, a command has run,
\* and both records have been taken off
C7_Witness ==
    /\ \A t \in {1, 2} : CbAtEnd(t) /\ Len(cb[t].put) = 1
    /\ Len(offers) = 2
    /\ TAG_QUEUE = <<>>
    /\ uiLog # <<>>

WellFormed(raw) == "EPC" \in DOMAIN raw /\ \A i \in DOMAIN raw["EPC"] : raw["EPC"][i] < 128

\* the records a batch must yield: its well-formed events, in order
ExpectedPut(batch) ==
    LET good == SelectSeq(batch, WellFormed)
    IN  [i \in DOMAIN good |->
            [epc |-> good[i]["EPC"], channel |-> good[i]["ChannelIndex"],
             last_seen |-> good[i]["LastSeenTimestampUTC"],
             seen_count |-> good[i]["TagSeenCount"]]]

FirstOfItsEpc(k) == \A j \in 1..(k - 1) : offers[j].rec.epc # offers[k].rec.epc

\* C8: a malformed raw event is skipped and the pipeline goes on: a callback
\* call enqueues every well-formed event of its batch, and while the process
\* runs each enqueued record is offered and, when its EPC was not seen before,
\* accepted and notified.
C8_MalformedSkipped ==
    /\ [](\A t \in CbThreads : CbAtEnd(t) => cb[t].put = ExpectedPut(cb[t].batch))
    /\ [](\A t \in CbThreads : ~CbIdle(t) => cb[t].put = ExpectedPut(SubSeq(cb[t].batch, 1, cb[t].idx - 1)))
    /\ \A k \in 1..MaxReports :
         (cbWarn > 0 /\ Len(enqueued) >= k)
         ~> (\/ ~running
             \/ /\ Len(offers) >= k
                /\ FirstOfItsEpc(k) =>
                     offers[k].result = "accepted" /\ IsNotified(offers[k].rec))

\* a batch whose first event is malformed and whose second is well-formed has
\* been handled, and the second event's record has been accepted and notified
C8_Witness ==
    \E t \in CbThreads :
        /\ CbAtEnd(t)
        /\ Len(cb[t].batch) = 2
        /\ ~WellFormed(cb[t].batch[1])
        /\ WellFormed(cb[t].batch[2])
        /\ cbWarn = 1
        /\ Len(offers) = 1
        /\ offers[1].result = "accepted"
        /\ IsNotified(offers[1].rec)

\* C9: an exception raised by startInventory or stopPolitely during a start or
\* stop command does not terminate the command loop.
C9_DriverErrorCaught ==
    \A i \in DOMAIN uiLog :
        (uiLog[i].cmd \in {"start", "stop"} /\ uiLog[i].outcome = "raised")
        => uiPc # "crashed"

StartReadWithoutSession ==
    /\ uiPc = "prompt"
    /\ ~READER.alive
    /\ Len(uiLog') = Len(uiLog) + 1
    /\ uiLog'[Len(uiLog')].cmd = "start"

\* C10: start() with no live session sends nothing to the driver and leaves
\* SEEN_TAGS, seen_epcs and TAG_QUEUE as they are.
C10_StartNoSessionNoop ==
    [][StartReadWithoutSession =>
         /\ UNCHANGED <<SEEN_TAGS, seen_epcs, TAG_QUEUE, driverCmds, READER>>
         /\ uiPc' = "prompt"]_vars

\* start() has returned as a no-op while the buffer and the queue hold records
C10_Witness ==
    /\ \E i \in DOMAIN uiLog : uiLog[i] = [cmd |-> "start", outcome |-> "noop"]
    /\ ~READER.alive
    /\ uiPc = "prompt"
    /\ SEEN_TAGS # <<>>
    /\ TAG_QUEUE # <<>>
    /\ driverCmds = <<>>

NoSessionRead(cmds) ==
    /\ uiPc = "prompt"
    /\ ~READER.alive
    /\ Len(uiLog') = Len(uiLog) + 1
    /\ uiLog'[Len(uiLog')].cmd \in cmds

\* C11: start() or stop() called with no live session prints a notice telling
\* the operator that nothing was done.
C11_NoopNotice ==
    [][NoSessionRead({"start", "stop"}) => Len(uiOut') = Len(uiOut) + 1]_vars

IsAcceptedOffer(o) == o.result = "accepted"

AcceptedOffers == SelectSeq(offers, IsAcceptedOffer)

\* the tag thread holds an accepted record it has not yet printed
PendingNote == IF ingPc \in {"append", "print"} THEN 1 ELSE 0

\* C12: one notification per accepted record and none for any other record:
\* the notifications are the accepted records' EPC, channel, seen-count and
\* last-seen, in acceptance order, a rejected duplicate adds none, and while
\* the process runs each accepted record gets its notification.
C12_NotifyOncePerAccepted ==
    /\ [](notified = [i \in 1..(Len(AcceptedOffers) - PendingNote) |->
                        NoteOf(AcceptedOffers[i].rec)])
    /\ \A k \in 1..MaxReports :
         (Len(AcceptedOffers) >= k) ~> (Len(notified) >= k \/ ~running)

\* a record was accepted and notified, a later duplicate of it was rejected
\* and left the notifications as they were
C12_Witness ==
    /\ Len(offers) = 2
    /\ offers[1].result = "accepted"
    /\ offers[2].result = "duplicate"
    /\ offers[2].rec.seen_count = 2
    /\ notified = <<NoteOf(offers[1].rec)>>
    /\ SEEN_TAGS = <<offers[1].rec>>
    /\ ingPc = "get"

CmdsSent == [i \in DOMAIN driverCmds |-> driverCmds[i].cmd]

\* "exit" was read while the session was alive and its stop_reading returned
ExitOnLiveSession ==
    uiLog # <<>> /\ uiLog[Len(uiLog)] = [cmd |-> "exit", outcome |-> "ok"]

LoopPcs == {"prompt", "start_clear", "start_inv", "stop_call", "exit_stop"}

C14_IngestionLoopExits ==
    (uiPc = "done" /\ ~running) => ingPc = "terminated"

\* this step sends cmd to the driver
Sends(cmd) ==
    /\ Len(driverCmds') = Len(driverCmds) + 1
    /\ driverCmds'[Len(driverCmds')].cmd = cmd

\* C15: start() on a live session clears the tag data before it calls
\* startInventory, and the call, failing or not, puts nothing back; stop()
\* leaves SEEN_TAGS and seen_epcs as they are, also when stopPolitely fails.
C15_ClearBeforeStartNoRollback ==
    /\ [][(uiPc' = "start_inv" /\ uiPc # "start_inv")
            => /\ SEEN_TAGS' = <<>>
               /\ nclears' = nclears + 1
               /\ driverCmds' = driverCmds]_vars
    /\ [][Sends("startInventory")
            => /\ uiPc = "start_inv"
               /\ UNCHANGED <<SEEN_TAGS, seen_epcs, accepted>>]_vars
    /\ [][(Sends("stopPolitely")
           \/ (Len(uiLog') = Len(uiLog) + 1 /\ uiLog'[Len(uiLog')].cmd = "stop"))
            => UNCHANGED <<SEEN_TAGS, seen_epcs, accepted>>]_vars

\* startInventory raised after the clear: the record accepted and shown before
\* the start is gone from the buffer and its EPC is still in seen_epcs
C15_Witness ==
    /\ uiLog # <<>>
    /\ uiLog[Len(uiLog)] = [cmd |-> "start", outcome |-> "raised"]
    /\ uiPc = "crashed"
    /\ Len(offers) = 1
    /\ offers[1].result = "accepted"
    /\ offers[1].clears = 0
    /\ IsNotified(offers[1].rec)
    /\ nclears = 1
    /\ SEEN_TAGS = <<>>
    /\ offers[1].rec.epc \in seen_epcs

RecordsOf(s) == {s[i] : i \in DOMAIN s}

\* the records accepted since the last clear that are no longer in the buffer
EvictedRecs == RecordsOf(accepted) \ RecordsOf(SEEN_TAGS)

\* C16: eviction from the full buffer leaves the EPC in seen_epcs: a later
\* record with the EPC of an evicted record is rejected as a duplicate while
\* no clear has happened since that EPC was accepted.
C16_EvictedStaysSeen ==
    LET gone == EvictedRecs IN
    /\ \A r \in gone : r.epc \in seen_epcs
    /\ \A k \in DOMAIN offers, r \in gone :
         (/\ offers[k].clears = nclears
          /\ r.epc = offers[k].rec.epc
          /\ r # offers[k].rec)
         => /\ offers[k].result = "duplicate"
            /\ ~IsNotified(offers[k].rec)
            /\ offers[k].rec \notin RecordsOf(SEEN_TAGS)

\* tag <<1>> was evicted by the append of <<101>>; a new report of <<1>> was
\* then rejected
C16_Witness ==
    /\ Len(accepted) = MAXLEN + 1
    /\ accepted[1] \in EvictedRecs
    /\ accepted[1].epc = <<1>>
    /\ Len(offers) = 2
    /\ offers[1].result = "accepted"
    /\ offers[2].rec.epc = <<1>>
    /\ offers[2].result = "duplicate"
    /\ Len(enqueued) = 2
    /\ ingPc = "get"

\* C17: startInventory and stopPolitely are only ever sent to the driver while
\* the session is alive, however the connection's state changes interleave
\* with start() and stop().
C17_DriverCmdOnlyWhenAlive ==
    \A i \in DOMAIN driverCmds :
        driverCmds[i].cmd \in {"startInventory", "stopPolitely"} => driverCmds[i].alive

\* user_interface reads one of cmds at the prompt
CmdRead(cmds) ==
    /\ uiPc = "prompt"
    /\ Len(uiLog') = Len(uiLog) + 1
    /\ uiLog'[Len(uiLog')].cmd \in cmds

\* C18: the state command and an unrecognized command change nothing: the
\* buffer, the seen set, the queue and the reader are as before, nothing is
\* sent to the driver, and the command loop is back at its prompt.
C18_StateAndUnknownChangeNothing ==
    [][CmdRead({"state", "?"})
         => /\ UNCHANGED <<SEEN_TAGS, seen_epcs, TAG_QUEUE, READER, driverCmds,
                           accepted, nclears>>
            /\ uiPc' = "prompt"
            /\ uiLog'[Len(uiLog')].outcome = "ok"]_vars

\* both commands have run, one of them without a session, and the buffer and
\* the queue still hold their records
C18_Witness ==
    /\ Len(uiLog) = 2
    /\ \A c \in {"state", "?"} : \E i \in DOMAIN uiLog : uiLog[i].cmd = c
    /\ \E i \in DOMAIN uiOut : uiOut[i] = <<"Reader not connected.">>
    /\ uiPc = "prompt"
    /\ SEEN_TAGS # <<>>
    /\ TAG_QUEUE # <<>>
    /\ driverCmds = <<>>

\* C19: clear_tag_data, on its own or inside start(), leaves TAG_QUEUE and the
\* record the tag thread holds as they are; a record that was queued before
\* the clear and is still pending is taken off and offered after it while the
\* process runs, and so can be appended and notified after the clear.
C19_ClearKeepsQueue ==
    /\ [][nclears' # nclears => UNCHANGED <<TAG_QUEUE, tag, ingPc, enqueued>>]_vars
    /\ [](Len(enqAt) = Len(enqueued))
    /\ \A k \in 1..MaxReports :
         (Len(enqAt) >= k /\ enqAt[k] < nclears /\ Len(offers) < k)
         ~> (~running \/ (Len(offers) >= k /\ offers[k].rec = enqueued[k]))

\* a record put on the queue before the clear of a start command was taken
\* off after it, appended and notified
C19_Witness ==
    /\ uiLog = <<[cmd |-> "start", outcome |-> "ok"]>>
    /\ nclears = 1
    /\ Len(offers) = 1
    /\ enqAt[1] = 0
    /\ offers[1].clears = 1
    /\ offers[1].result = "accepted"
    /\ SEEN_TAGS = <<offers[1].rec>>
    /\ IsNotified(offers[1].rec)

====
